---------------------------- MODULE Spec2Model ----------------------------
(***************************************************************************)
(* Maintenance scripts of the sticker picker's media repository:           *)
(*   scripts/keep_mmr.py          pin every media of the upload log        *)
(*   scripts/rm_unused_thumbs.py  prune thumbnails no pack refers to       *)
(*   scripts/sync_uploads.py      drop unreferenced lines of the upload    *)
(*                                log and mark their media purpose=none    *)
(*                                                                         *)
(* Text is modelled as a sequence of tokens.  A token is a separator       *)
(* character (" ", "\n", "/"), or a maximal run of text without such a     *)
(* character, written as a string.  A line is a token sequence without     *)
(* "\n"; a file is a token sequence; a URL is a token sequence whose "/"   *)
(* are tokens of their own.  Parsed JSON is a record tagged with the       *)
(* Python type of the value (t), "missing" standing for an absent key.     *)
(***************************************************************************)
EXTENDS Naturals, Sequences, FiniteSets

\* Largest number of lines of an upload log.
MaxLines == 3

\* Largest number of entries of a packs directory.
MaxPacks == 2

SP == " "
NL == "\n"
SLASH == "/"

-----------------------------------------------------------------------------
(* JSON values *)

Missing == [t |-> "missing", v |-> <<>>]
Str(v) == [t |-> "str", v |-> v]
Int5 == [t |-> "int", v |-> <<"5">>]

\* A JSON object of the upload log: its url and purpose members.
Obj(url, purpose) == [t |-> "dict", url |-> url, purpose |-> purpose]
\* A JSON value that is no object.
NonObj(t) == [t |-> t, url |-> Missing, purpose |-> Missing]
DecodeError == NonObj("JSONDecodeError")

Mxc(server, id) == <<"mxc:", SLASH, SLASH, server, SLASH, id>>

\* The JSON texts that occur in the upload logs of the model.
J_a1 == "{\"url\":\"mxc://s/a1\"}"
J_z9 == "{\"url\":\"mxc://s/z9\",\"purpose\":\"pinned\"}"
J_nourl == "{\"purpose\":\"pinned\"}"
J_list == "[]"
J_bad == "{\"url\":"

\* json.loads on a stripped line: the texts above parse to what they say, a
\* line that is not exactly one JSON text is a JSONDecodeError.
json_loads(s) ==
    IF Len(s) # 1 THEN DecodeError
    ELSE CASE s[1] = J_a1 -> Obj(Str(Mxc("s", "a1")), Missing)
           [] s[1] = J_z9 -> Obj(Str(Mxc("s", "z9")), Str(<<"pinned">>))
           [] s[1] = J_nourl -> Obj(Missing, Str(<<"pinned">>))
           [] s[1] = J_list -> NonObj("list")
           [] OTHER -> DecodeError

\* The lines an upload log of the model is made of.
LineCatalogue ==
    { <<>>, <<SP>>, <<J_a1>>, <<SP, J_z9>>, <<J_nourl>>, <<J_list>>, <<J_bad>> }

RECURSIVE SeqsUpTo(_, _)
SeqsUpTo(S, n) ==
    IF n = 0 THEN { <<>> }
    ELSE LET shorter == SeqsUpTo(S, n - 1)
         IN  shorter \cup { Append(q, x) : q \in shorter, x \in S }

Logs == SeqsUpTo(LineCatalogue, MaxLines)

-----------------------------------------------------------------------------
(* Text helpers *)

Last(s) == s[Len(s)]
Front(s) == SubSeq(s, 1, Len(s) - 1)

RECURSIVE LStrip(_)
LStrip(s) == IF s # <<>> /\ Head(s) = SP THEN LStrip(Tail(s)) ELSE s

RECURSIVE RStrip(_)
RStrip(s) == IF s # <<>> /\ Last(s) = SP THEN RStrip(Front(s)) ELSE s

\* str.strip()
Strip(s) == RStrip(LStrip(s))

\* Positions of "/" in a token sequence.
SlashesOf(s) == { i \in 1..Len(s) : s[i] = SLASH }

Max(S) == CHOOSE x \in S : \A y \in S : y <= x
Min(S) == CHOOSE x \in S : \A y \in S : x <= y

\* url.rsplit("/", 1)[-1]
extract_media_id_from_url(url) ==
    IF SlashesOf(url) = {} THEN url
    ELSE SubSeq(url, Max(SlashesOf(url)) + 1, Len(url))

\* "\n".join(lines)
RECURSIVE JoinLines(_)
JoinLines(lines) ==
    IF lines = <<>> THEN <<>>
    ELSE IF Len(lines) = 1 THEN lines[1]
    ELSE lines[1] \o <<NL>> \o JoinLines(Tail(lines))

\* str.splitlines(): cur is the line being read, out the lines read so far.
RECURSIVE SplitFrom(_, _, _)
SplitFrom(s, cur, out) ==
    IF s = <<>> THEN (IF cur = <<>> THEN out ELSE Append(out, cur))
    ELSE IF Head(s) = NL THEN SplitFrom(Tail(s), <<>>, Append(out, cur))
    ELSE SplitFrom(Tail(s), Append(cur, Head(s)), out)

SplitLines(s) == SplitFrom(s, <<>>, <<>>)

\* The content of a file whose lines are all newline-terminated.
RECURSIVE Terminated(_)
Terminated(lines) ==
    IF lines = <<>> THEN <<>>
    ELSE lines[1] \o <<NL>> \o Terminated(Tail(lines))

-----------------------------------------------------------------------------
(* scripts/sync_uploads.py: the filter *)

\* obj["purpose"] = "none"
MarkNone(obj) == [obj EXCEPT !.purpose = Str(<<"none">>)]

Raised == [raised |-> TRUE, kept |-> <<>>, removed |-> <<>>]

\* A slip: the whole url is looked up, not its media ID.
IsPresentByUrl(url, present_media_ids) == url \in present_media_ids

\* media_id = _extract_media_id_from_url(url); media_id in present_media_ids
IsPresent(url, present_media_ids) ==
    extract_media_id_from_url(url) \in present_media_ids

\* The loop of filter_uploads_lines over the lines still to read.  An object
\* that is no dict has no get(): the AttributeError is not caught (only
\* json.JSONDecodeError is) and leaves the function.
RECURSIVE FilterFrom(_, _, _, _)
FilterFrom(lines, present, kept, removed) ==
    IF lines = <<>> THEN [raised |-> FALSE, kept |-> kept, removed |-> removed]
    ELSE LET ln == Head(lines)
             rest == Tail(lines)
             ln_stripped == Strip(ln)
             obj == json_loads(ln_stripped)
         IN  IF ln_stripped = <<>>
                 THEN FilterFrom(rest, present, Append(kept, ln), removed)
             ELSE IF obj.t = "JSONDecodeError"
                 THEN FilterFrom(rest, present, Append(kept, ln), removed)
             ELSE IF obj.t # "dict"
                 THEN Raised
             ELSE IF obj.url.t # "str"
                 THEN FilterFrom(rest, present, Append(kept, ln), removed)
             ELSE IF IsPresent(obj.url.v, present)
                 THEN FilterFrom(rest, present, Append(kept, ln), removed)
             ELSE FilterFrom(rest, present, kept, Append(removed, MarkNone(obj)))

\* A slip: the line after a removed one is kept without a look, as when lines
\* are deleted from the list the loop walks.
RECURSIVE FilterSkipping(_, _, _, _)
FilterSkipping(lines, present, kept, removed) ==
    IF lines = <<>> THEN [raised |-> FALSE, kept |-> kept, removed |-> removed]
    ELSE LET ln == Head(lines)
             rest == Tail(lines)
             obj == json_loads(Strip(ln))
         IN  IF obj.t = "JSONDecodeError"
                 THEN FilterSkipping(rest, present, Append(kept, ln), removed)
             ELSE IF obj.t # "dict"
                 THEN Raised
             ELSE IF obj.url.t # "str" \/ IsPresent(obj.url.v, present)
                 THEN FilterSkipping(rest, present, Append(kept, ln), removed)
             ELSE IF rest = <<>>
                 THEN FilterSkipping(rest, present, kept, Append(removed, MarkNone(obj)))
             ELSE FilterSkipping(Tail(rest), present, Append(kept, Head(rest)),
                                 Append(removed, MarkNone(obj)))

filter_removing_in_place(lines, present_media_ids) ==
    FilterSkipping(lines, present_media_ids, <<>>, <<>>)

filter_uploads_lines(lines, present_media_ids) ==
    FilterFrom(lines, present_media_ids, <<>>, <<>>)

\* A slip: the newline is added without a look at the end of the content.
write_always_newline(lines) == JoinLines(lines) \o <<NL>>

\* The text write_uploads_lines writes.
write_uploads_lines(lines) ==
    LET content == JoinLines(lines)
    IN  IF content # <<>> /\ Last(content) = NL THEN content
        ELSE content \o <<NL>>

\* read_uploads_lines on a file of the given content.
read_uploads_lines(content) == SplitLines(content)

-----------------------------------------------------------------------------
(* Pack documents *)

NoInfo == [t |-> "missing", thumbnail_url |-> Missing]
Info(thumb) == [t |-> "dict", thumbnail_url |-> thumb]
Sticker(id, info) == [t |-> "dict", id |-> id, info |-> info]
NonDictSticker == [t |-> "int", id |-> Missing, info |-> NoInfo]
Pack(items) == [t |-> "dict", stickers |-> [t |-> "list", items |-> items]]
BrokenPack == [t |-> "JSONDecodeError", stickers |-> [t |-> "missing", items |-> <<>>]]

JSON_SUFFIX == ".json"
IndexName == <<"index", JSON_SUFFIX>>

\* The entries a packs directory of the model is made of.
PackCatalogue ==
    { [name |-> <<"p1", JSON_SUFFIX>>,
       data |-> Pack(<< Sticker(Str(Mxc("s", "a1")), Info(Str(Mxc("s", "b2")))) >>)],
      [name |-> <<"p2", JSON_SUFFIX>>,
       data |-> Pack(<< Sticker(Str(Mxc("s", "c3")), NoInfo),
                        Sticker(Missing, Info(Int5)) >>)],
      [name |-> IndexName,
       data |-> Pack(<< Sticker(Str(Mxc("s", "z9")), Info(Str(Mxc("s", "c3")))) >>)],
      [name |-> <<"broken", JSON_SUFFIX>>,
       data |-> BrokenPack],
      [name |-> <<"odd", JSON_SUFFIX>>,
       data |-> Pack(<< NonDictSticker >>)] }

PackDirs == { D \in SUBSET PackCatalogue : Cardinality(D) <= MaxPacks }

\* name.endswith(".json") and name != "index.json"
IsPackName(name) == name # <<>> /\ Last(name) = JSON_SUFFIX /\ name # IndexName

-----------------------------------------------------------------------------
(* scripts/sync_uploads.py: collect_media_ids_from_packs *)

\* The IDs one sticker adds to `present`.
StickerMediaIds(s) ==
    IF s.t # "dict" THEN {}
    ELSE (IF s.id.t = "str" THEN { extract_media_id_from_url(s.id.v) } ELSE {})
         \cup
         (IF s.info.t = "dict" /\ s.info.thumbnail_url.t = "str"
             THEN { extract_media_id_from_url(s.info.thumbnail_url.v) }
             ELSE {})

\* The IDs one directory entry adds; a pack that does not parse is skipped.
PackMediaIds(f) ==
    IF ~IsPackName(f.name) \/ f.data.t = "JSONDecodeError" THEN {}
    ELSE IF f.data.stickers.t # "list" THEN {}
    ELSE UNION { StickerMediaIds(f.data.stickers.items[i]) :
                    i \in 1..Len(f.data.stickers.items) }

\* data.get on a document that is no object is an uncaught AttributeError.
PackMediaRaises(f) ==
    IsPackName(f.name) /\ f.data.t \notin {"JSONDecodeError", "dict"}

collect_media_ids_from_packs(dir) ==
    [raised |-> \E f \in dir : PackMediaRaises(f),
     ids |-> UNION { PackMediaIds(f) : f \in dir }]

-----------------------------------------------------------------------------
(* scripts/rm_unused_thumbs.py *)

\* A slip: the whole thumbnail_url is taken for the file name.
StickerThumbsNoRsplit(s) ==
    IF s.info.thumbnail_url.t # "str" \/ s.info.thumbnail_url.v = <<>> THEN {}
    ELSE { s.info.thumbnail_url.v }

\* The file name one sticker adds to `used`: only info.thumbnail_url is read.
StickerThumbs(s) ==
    LET thumb_url == s.info.thumbnail_url
        fname == extract_media_id_from_url(thumb_url.v)
    IN  IF thumb_url.t # "str" \/ thumb_url.v = <<>> THEN {}
        ELSE IF fname = <<>> THEN {}
        ELSE { fname }

\* s.get / info.get on a value that is no dict is an uncaught AttributeError
\* (a missing info defaults to {}).
StickerRaises(s) == s.t # "dict" \/ s.info.t \notin {"dict", "missing"}

\* json.JSONDecodeError is re-raised as ValueError; the rest is not caught.
PackThumbsRaises(f) ==
    /\ IsPackName(f.name)
    /\ \/ f.data.t # "dict"
       \/ f.data.stickers.t \notin {"list", "missing"}
       \/ \E i \in 1..Len(f.data.stickers.items) :
             StickerRaises(f.data.stickers.items[i])

PackThumbs(f) ==
    IF ~IsPackName(f.name) THEN {}
    ELSE UNION { StickerThumbs(f.data.stickers.items[i]) :
                    i \in 1..Len(f.data.stickers.items) }

collect_used_thumbnails(dir) ==
    IF \E f \in dir : PackThumbsRaises(f)
        THEN [raised |-> TRUE, ids |-> {}]
        ELSE [raised |-> FALSE, ids |-> UNION { PackThumbs(f) : f \in dir }]

\* The names of the thumbnail files of the model.
ThumbNames == { <<"a1">>, <<"b2">>, <<"c3">> }

\* to_remove of remove_unused_thumbnails, as a set of names.
ToRemove(all_thumbs, used) == { name \in all_thumbs : name \notin used }

\* A slip: the count of deletions is returned in a dry run too.
RemoveResultNoDry(dry, removed, n_to_remove) == removed

\* What remove_unused_thumbnails returns.
RemoveResult(dry, removed, n_to_remove) == IF dry THEN n_to_remove ELSE removed

-----------------------------------------------------------------------------
(* scripts/keep_mmr.py *)

MXC_PREFIX == <<"mxc:", SLASH, SLASH>>

\* _extract_media_id: <<>> stands for None (every exception is caught).
extract_media_id(line) ==
    LET obj == json_loads(line)
        url == obj.url.v
        rest == SubSeq(url, Len(MXC_PREFIX) + 1, Len(url))
        cut == Min(SlashesOf(rest))
    IN  IF obj.t # "dict" \/ obj.url.t # "str" THEN <<>>
        ELSE IF Len(url) < Len(MXC_PREFIX)
                \/ SubSeq(url, 1, Len(MXC_PREFIX)) # MXC_PREFIX THEN <<>>
        ELSE IF SlashesOf(rest) = {} THEN <<>>
        ELSE SubSeq(rest, cut + 1, Len(rest))

\* media_ids of main: the IDs of the lines that have one, in file order.
RECURSIVE GatherMediaIds(_)
GatherMediaIds(lines) ==
    IF lines = <<>> THEN <<>>
    ELSE LET mid == extract_media_id(Strip(Head(lines)))
         IN  (IF mid # <<>> THEN <<mid>> ELSE <<>>) \o GatherMediaIds(Tail(lines))

\* 200 <= result.status < 300
IsSuccess(status) == 200 <= status /\ status < 300

\* The statuses set_media_purpose returns in the model; 0 is a transport error.
Statuses == {0, 199, 200, 299, 300, 404}

-----------------------------------------------------------------------------
(* One run of one script *)

VARIABLES
    workflow,      \* the script run: "pin", "prune" or "sync"
    dry_run,       \* --dry-run
    packs,         \* the entries of the packs directory
    thumbs,        \* the names of the files of the thumbnails directory
    uploads,       \* the content of the upload log file
    purpose_out,   \* the content of backup/uploads_purpose_none.ndjson
    requests,      \* the POSTs sent so far, in order
    pc,            \* where the run is
    present_ids,   \* sync: the reference set
    used,          \* prune: the reference set
    lines,         \* the lines read from the upload log
    filtered,      \* sync: the kept lines
    removed_objs,  \* sync: the removed records
    media_ids,     \* pin: the IDs to pin
    idx,           \* the number of items the per-item loop has handled
    ok,            \* ok / success of main
    fail,          \* fail of main
    to_remove,     \* prune: the files to delete
    pending,       \* prune: the files of to_remove not yet handled
    removed,       \* prune: the files deleted
    reported,      \* the count the run prints at its end
    exit_code,     \* the exit code, once pc is "done" or "crashed"
    uploads0,      \* history: the upload log before the run
    thumbs0,       \* history: the thumbnails directory before the run
    writes,        \* history: how often the upload log was written
    unlink_failed  \* history: the files os.remove failed on

vars == << workflow, dry_run, packs, thumbs, uploads, purpose_out, requests, pc,
           present_ids, used, lines, filtered, removed_objs, media_ids, idx, ok,
           fail, to_remove, pending, removed, reported, exit_code, uploads0,
           thumbs0, writes, unlink_failed >>

input == << workflow, dry_run, packs, uploads0, thumbs0 >>
files == << packs, thumbs, uploads, purpose_out >>
syncState == << present_ids, lines, filtered, removed_objs >>
pruneState == << used, to_remove, pending, removed, unlink_failed >>
counters == << idx, ok, fail >>

Init ==
    /\ workflow \in {"pin", "prune", "sync"}
    /\ dry_run \in BOOLEAN
    /\ packs \in (IF workflow = "pin" THEN { {} } ELSE PackDirs)
    /\ thumbs \in (IF workflow = "prune" THEN SUBSET ThumbNames ELSE { {} })
    /\ uploads \in (IF workflow = "prune" THEN { <<>> }
                    ELSE { Terminated(L) : L \in Logs })
    /\ purpose_out = <<>>
    /\ requests = <<>>
    /\ pc = "start"
    /\ present_ids = {}
    /\ used = {}
    /\ lines = <<>>
    /\ filtered = <<>>
    /\ removed_objs = <<>>
    /\ media_ids = <<>>
    /\ idx = 0
    /\ ok = 0
    /\ fail = 0
    /\ to_remove = {}
    /\ pending = {}
    /\ removed = 0
    /\ reported = 0
    /\ exit_code = 0
    /\ uploads0 = uploads
    /\ thumbs0 = thumbs
    /\ writes = 0
    /\ unlink_failed = {}

\* An exception no one catches ends the interpreter with exit code 1.
Crash ==
    /\ pc' = "crashed"
    /\ exit_code' = 1

Request(media_id, purpose) == [media_id |-> media_id, purpose |-> purpose]

-----------------------------------------------------------------------------
(* scripts/sync_uploads.py: main *)

SyncCollect ==
    /\ workflow = "sync" /\ pc = "start"
    /\ LET r == collect_media_ids_from_packs(packs)
       IN  IF r.raised
               THEN Crash /\ UNCHANGED present_ids
               ELSE /\ present_ids' = r.ids
                    /\ pc' = "collected"
                    /\ UNCHANGED exit_code
    /\ UNCHANGED << input, files, requests, lines, filtered, removed_objs,
                    media_ids, counters, pruneState, reported, writes >>

SyncFilter ==
    /\ workflow = "sync" /\ pc = "collected"
    /\ lines' = read_uploads_lines(uploads)
    /\ LET r == filter_uploads_lines(lines', present_ids)
       IN  IF r.raised
               THEN Crash /\ UNCHANGED << filtered, removed_objs >>
               ELSE /\ filtered' = r.kept
                    /\ removed_objs' = r.removed
                    /\ pc' = "filtered"
                    /\ UNCHANGED exit_code
    /\ UNCHANGED << input, files, requests, present_ids, media_ids, counters,
                    pruneState, reported, writes >>

SyncDryRun ==
    /\ workflow = "sync" /\ pc = "filtered" /\ dry_run
    /\ reported' = Len(removed_objs)
    /\ exit_code' = 0
    /\ pc' = "done"
    /\ UNCHANGED << input, files, requests, syncState, media_ids, counters,
                    pruneState, writes >>

SyncNothing ==
    /\ workflow = "sync" /\ pc = "filtered" /\ ~dry_run
    /\ Len(removed_objs) = 0
    /\ reported' = 0
    /\ exit_code' = 0
    /\ pc' = "done"
    /\ UNCHANGED << input, files, requests, syncState, media_ids, counters,
                    pruneState, writes >>

SyncCall ==
    /\ workflow = "sync" /\ pc = "filtered" /\ ~dry_run
    /\ Len(removed_objs) > 0 /\ idx < Len(removed_objs)
    /\ LET obj == removed_objs[idx + 1]
       IN  IF obj.url.t # "str"
               THEN /\ fail' = fail + 1
                    /\ UNCHANGED << ok, requests >>
               ELSE \E status \in Statuses :
                      /\ requests' = Append(requests,
                            Request(extract_media_id_from_url(obj.url.v), "none"))
                      /\ IF IsSuccess(status)
                            THEN ok' = ok + 1 /\ UNCHANGED fail
                            ELSE fail' = fail + 1 /\ UNCHANGED ok
    /\ idx' = idx + 1
    /\ UNCHANGED << input, files, pc, syncState, media_ids, pruneState,
                    reported, exit_code, writes >>

\* A slip: the rewrite sits inside the loop over the removed records.
SyncWriteInLoop ==
    /\ workflow = "sync" /\ pc = "filtered" /\ ~dry_run
    /\ Len(removed_objs) > 0 /\ idx >= 1 /\ writes < idx
    /\ uploads' = write_uploads_lines(filtered)
    /\ writes' = writes + 1
    /\ reported' = Len(removed_objs)
    /\ exit_code' = 0
    /\ pc' = IF idx = Len(removed_objs) THEN "done" ELSE pc
    /\ UNCHANGED << input, packs, thumbs, purpose_out, requests, syncState,
                    media_ids, counters, pruneState >>

\* A slip: after a failed call the log is written back as it was read.
SyncWriteKeepFailed ==
    /\ workflow = "sync" /\ pc = "filtered" /\ ~dry_run
    /\ Len(removed_objs) > 0 /\ idx = Len(removed_objs)
    /\ uploads' = write_uploads_lines(IF fail > 0 THEN lines ELSE filtered)
    /\ writes' = writes + 1
    /\ reported' = Len(removed_objs)
    /\ exit_code' = 0
    /\ pc' = "done"
    /\ UNCHANGED << input, packs, thumbs, purpose_out, requests, syncState,
                    media_ids, counters, pruneState >>

SyncWrite ==
    /\ workflow = "sync" /\ pc = "filtered" /\ ~dry_run
    /\ Len(removed_objs) > 0 /\ idx = Len(removed_objs)
    /\ uploads' = write_uploads_lines(filtered)
    /\ writes' = writes + 1
    /\ reported' = Len(removed_objs)
    /\ exit_code' = 0
    /\ pc' = "done"
    /\ UNCHANGED << input, packs, thumbs, purpose_out, requests, syncState,
                    media_ids, counters, pruneState >>

-----------------------------------------------------------------------------
(* scripts/rm_unused_thumbs.py: main *)

PruneCollect ==
    /\ workflow = "prune" /\ pc = "start"
    /\ LET r == collect_used_thumbnails(packs)
       IN  IF r.raised
               THEN Crash /\ UNCHANGED used
               ELSE /\ used' = r.ids
                    /\ pc' = "collected"
                    /\ UNCHANGED exit_code
    /\ UNCHANGED << input, files, requests, syncState, media_ids, counters,
                    to_remove, pending, removed, unlink_failed, reported, writes >>

PruneList ==
    /\ workflow = "prune" /\ pc = "collected"
    /\ to_remove' = ToRemove(thumbs, used)
    /\ pending' = to_remove'
    /\ pc' = "removing"
    /\ UNCHANGED << input, files, requests, syncState, media_ids, counters,
                    used, removed, unlink_failed, reported, exit_code, writes >>

PrunePreview ==
    /\ workflow = "prune" /\ pc = "removing" /\ dry_run
    /\ \E name \in pending : pending' = pending \ {name}
    /\ UNCHANGED << input, files, requests, pc, syncState, media_ids, counters,
                    used, to_remove, removed, unlink_failed, reported, exit_code, writes >>

\* os.remove either deletes the file or raises OSError, which is printed.
PruneRemove ==
    /\ workflow = "prune" /\ pc = "removing" /\ ~dry_run
    /\ \E name \in pending :
         /\ pending' = pending \ {name}
         /\ \E deleted \in BOOLEAN :
              IF deleted
                  THEN /\ thumbs' = thumbs \ {name}
                       /\ removed' = removed + 1
                       /\ UNCHANGED unlink_failed
                  ELSE /\ unlink_failed' = unlink_failed \cup {name}
                       /\ UNCHANGED << thumbs, removed >>
    /\ UNCHANGED << input, packs, uploads, purpose_out, requests, pc, syncState,
                    media_ids, counters, used, to_remove, reported, exit_code,
                    writes >>

PruneReturn ==
    /\ workflow = "prune" /\ pc = "removing" /\ pending = {}
    /\ reported' = RemoveResult(dry_run, removed, Cardinality(to_remove))
    /\ exit_code' = 0
    /\ pc' = "done"
    /\ UNCHANGED << input, files, requests, syncState, media_ids, counters,
                    pruneState, writes >>

-----------------------------------------------------------------------------
(* scripts/keep_mmr.py: main *)

PinGather ==
    /\ workflow = "pin" /\ pc = "start"
    /\ lines' = SplitLines(uploads)
    /\ media_ids' = GatherMediaIds(lines')
    /\ IF media_ids' = <<>>
           THEN pc' = "done" /\ exit_code' = 0
           ELSE pc' = "calling" /\ UNCHANGED exit_code
    /\ UNCHANGED << input, files, requests, present_ids, filtered, removed_objs,
                    counters, pruneState, reported, writes >>

PinPreview ==
    /\ workflow = "pin" /\ pc = "calling" /\ dry_run
    /\ idx < Len(media_ids)
    /\ ok' = ok + 1
    /\ idx' = idx + 1
    /\ UNCHANGED << input, files, requests, pc, syncState, media_ids, fail,
                    pruneState, reported, exit_code, writes >>

PinCall ==
    /\ workflow = "pin" /\ pc = "calling" /\ ~dry_run
    /\ idx < Len(media_ids)
    /\ \E status \in Statuses :
         /\ requests' = Append(requests, Request(media_ids[idx + 1], "pinned"))
         /\ IF IsSuccess(status)
               THEN ok' = ok + 1 /\ UNCHANGED fail
               ELSE fail' = fail + 1 /\ UNCHANGED ok
    /\ idx' = idx + 1
    /\ UNCHANGED << input, files, pc, syncState, media_ids, pruneState,
                    reported, exit_code, writes >>

PinFinish ==
    /\ workflow = "pin" /\ pc = "calling"
    /\ idx = Len(media_ids)
    /\ reported' = ok
    /\ exit_code' = IF fail = 0 THEN 0 ELSE 1
    /\ pc' = "done"
    /\ UNCHANGED << input, files, requests, syncState, media_ids, counters,
                    pruneState, writes >>

-----------------------------------------------------------------------------

Next ==
    \/ SyncCollect
    \/ SyncFilter
    \/ SyncDryRun
    \/ SyncNothing
    \/ SyncCall
    \/ SyncWrite
    \/ PruneCollect
    \/ PruneList
    \/ PrunePreview
    \/ PruneRemove
    \/ PruneReturn
    \/ PinGather
    \/ PinPreview
    \/ PinCall
    \/ PinFinish

Spec == Init /\ [][Next]_vars

-----------------------------------------------------------------------------
(* What the claims speak of, stated from the formats and not from the code *)

LineObj(ln) == json_loads(Strip(ln))

\* The line is a JSON object with a string url: an upload record.
IsRecordLine(ln) == LineObj(ln).t = "dict" /\ LineObj(ln).url.t = "str"

\* The part of the record's url after its last "/".
LineMediaId(ln) ==
    LET url == LineObj(ln).url.v
    IN  IF \E i \in 1..Len(url) : url[i] = SLASH
            THEN SubSeq(url, (CHOOSE i \in 1..Len(url) :
                                 /\ url[i] = SLASH
                                 /\ \A j \in (i + 1)..Len(url) : url[j] # SLASH) + 1,
                        Len(url))
            ELSE url

\* Blank, not JSON, or JSON without a string url.
IsMalformedLine(ln) == ~IsRecordLine(ln)

Referenced(ln, R) == IsRecordLine(ln) /\ LineMediaId(ln) \in R
Unreferenced(ln, R) == IsRecordLine(ln) /\ LineMediaId(ln) \notin R

ReferencedLines(L, R) == LET T(ln) == Referenced(ln, R) IN SelectSeq(L, T)
UnreferencedLines(L, R) == LET T(ln) == Unreferenced(ln, R) IN SelectSeq(L, T)
OtherLines(L, R) == LET T(ln) == ~Unreferenced(ln, R) IN SelectSeq(L, T)
MalformedLines(L) == SelectSeq(L, IsMalformedLine)

\* The lines of the upload log before the run.
Lines0 == SplitLines(uploads0)

\* The reference set of the sync run.
RefSet == collect_media_ids_from_packs(packs).ids

\* The purpose=none requests owed to the unreferenced records of L, in order.
NoneRequests(L, R) ==
    LET U == UnreferencedLines(L, R)
    IN  [i \in 1..Len(U) |-> Request(LineMediaId(U[i]), "none")]

IsPrefix(p, q) == Len(p) <= Len(q) /\ SubSeq(q, 1, Len(p)) = p

\* The stickers of the pack documents of a directory (index.json is none).
StickersOf(dir) ==
    UNION { { f.data.stickers.items[i] : i \in 1..Len(f.data.stickers.items) } :
            f \in { g \in dir : IsPackName(g.name) } }

\* The media IDs of the stickers' info.thumbnail_url.
ThumbnailUrlIds(dir) ==
    { extract_media_id_from_url(s.info.thumbnail_url.v) :
        s \in { x \in StickersOf(dir) :
                  x.info.t = "dict" /\ x.info.thumbnail_url.t = "str" } }

\* The media IDs of the stickers' id.
StickerIdIds(dir) ==
    { extract_media_id_from_url(s.id.v) :
        s \in { x \in StickersOf(dir) : x.id.t = "str" } }

SyncFiltered == workflow = "sync" /\ pc \in {"filtered", "done"}
LiveDone(w) == workflow = w /\ ~dry_run /\ pc = "done"
PruneLiveClean == LiveDone("prune") /\ unlink_failed = {}

ScenarioPack ==
    [name |-> <<"p1", JSON_SUFFIX>>,
     data |-> Pack(<< Sticker(Str(Mxc("s", "a1")), Info(Str(Mxc("s", "b2")))) >>)]

-----------------------------------------------------------------------------
(* The claims *)

\* C1: in a sync run, every line of the log whose media ID is in the
\* reference set is in the log at every moment, rewritten or not, and no
\* purpose=none request is sent for a media ID of the reference set.
C1_ReferencedNeverTouched ==
    workflow = "sync" =>
        /\ ReferencedLines(SplitLines(uploads), RefSet) = ReferencedLines(Lines0, RefSet)
        /\ \A i \in 1..Len(requests) :
              requests[i].purpose = "none" => requests[i].media_id \notin RefSet

C1_Witness ==
    /\ LiveDone("sync") /\ writes = 1 /\ requests # <<>>
    /\ ReferencedLines(Lines0, RefSet) # <<>>

\* C2 as stated: a live prune without deletion failures deletes exactly the
\* thumbnail files named by neither a sticker's id nor a sticker's
\* info.thumbnail_url, and returns their number.
C2_Original ==
    PruneLiveClean =>
        LET unused == thumbs0 \ (ThumbnailUrlIds(packs) \cup StickerIdIds(packs))
        IN  thumbs0 \ thumbs = unused /\ reported = Cardinality(unused)

\* C2 amended: a live prune without deletion failures deletes exactly the
\* thumbnail files not named by any sticker's info.thumbnail_url (a
\* sticker's id protects no file) and returns their number; with the pack
\* (id a1, thumbnail_url b2) and the files a1, b2, c3 it deletes a1 and c3
\* and returns 2.
C2_PrunesByThumbnailUrl ==
    PruneLiveClean =>
        LET unused == thumbs0 \ ThumbnailUrlIds(packs)
        IN  /\ thumbs0 \ thumbs = unused
            /\ reported = Cardinality(unused)
            /\ (packs = {ScenarioPack} /\ thumbs0 = ThumbNames)
                  => thumbs = { <<"b2">> } /\ reported = 2

C2_Witness ==
    /\ PruneLiveClean
    /\ packs = {ScenarioPack} /\ thumbs0 = ThumbNames
    /\ thumbs = { <<"b2">> } /\ reported = 2

\* C3: a live sync run leaves, besides the filtered log, a side file with
\* one record per removed upload record, its purpose set to "none".
C3_SideFileWritten ==
    LiveDone("sync") =>
        /\ Len(purpose_out) = Len(UnreferencedLines(Lines0, RefSet))
        /\ purpose_out = removed_objs

\* C4: a dry run deletes no thumbnail, does not rewrite the log and sends no
\* request, and the count it reports is the number of items a live run on
\* the same input acts on (files it tries to delete, records it drops and
\* marks, media it pins).
C4_DryRunPure ==
    LET L == Lines0
        would == CASE workflow = "prune" ->
                        Cardinality(thumbs0 \ ThumbnailUrlIds(packs))
                   [] workflow = "sync" -> Len(UnreferencedLines(L, RefSet))
                   [] workflow = "pin" ->
                        Cardinality({ i \in 1..Len(L) :
                                        extract_media_id(Strip(L[i])) # <<>> })
    IN  /\ dry_run => /\ thumbs = thumbs0
                      /\ uploads = uploads0 /\ writes = 0
                      /\ requests = <<>>
        /\ (dry_run /\ pc = "done") => reported = would
        /\ LiveDone("prune") =>
              Cardinality((thumbs0 \ thumbs) \cup unlink_failed) = would
        /\ LiveDone("sync") =>
              Len(requests) = would /\ Len(lines) - Len(filtered) = would
        /\ LiveDone("pin") => Len(requests) = would

C4_Witness ==
    /\ dry_run /\ pc = "done" /\ reported >= 2
    /\ workflow = "prune"

\* C5: a live pin or sync run attempts every item whatever fails, and its
\* exit code is 1 if a per-item operation failed and 0 if none did.
C5_ExitCodeTellsFailure ==
    (workflow \in {"pin", "sync"} /\ ~dry_run /\ pc = "done") =>
        /\ idx = (IF workflow = "pin" THEN Len(media_ids) ELSE Len(removed_objs))
        /\ (fail > 0 => exit_code = 1)
        /\ (fail = 0 => exit_code = 0)

\* C6: the filter fails on no line, and every blank line, every line that is
\* not JSON and every line without a string url (a JSON value that is no
\* object too) is in the kept lines as it was and adds no removed record.
C6_MalformedLinesKept ==
    (workflow = "sync" /\ pc \notin {"start", "collected"}) =>
        /\ pc # "crashed"
        /\ MalformedLines(filtered) = MalformedLines(lines)
        /\ Len(removed_objs) = Len(UnreferencedLines(lines, present_ids))

\* C7: filtering the kept lines again with the same reference set keeps them
\* all and removes nothing.
C7_FilterIdempotent ==
    SyncFiltered =>
        filter_uploads_lines(filtered, present_ids) =
            [raised |-> FALSE, kept |-> filtered, removed |-> <<>>]

C7_Witness ==
    SyncFiltered /\ removed_objs # <<>> /\ Len(filtered) >= 2

\* C8 as stated: the rewritten log ends with a newline and reads back as
\* exactly the kept lines, whatever they are.
C8_Original ==
    SyncFiltered =>
        LET content == write_uploads_lines(filtered)
        IN  /\ Last(content) = NL
            /\ read_uploads_lines(content) = filtered

\* What reads back of kept lines K: a final empty line is lost, and no
\* lines at all read back as one empty line.
ReadBack(K) ==
    IF K = <<>> THEN << <<>> >>
    ELSE IF Len(K) >= 2 /\ Last(K) = <<>> THEN Front(K)
    ELSE K

\* C8 amended: the rewritten log ends with a newline and reads back as the
\* kept lines K, every blank line at its place, when K is not empty and does
\* not end, after another line, with an empty line; such a final empty line
\* is not read back, and an empty K reads back as one empty line.
C8_RoundTripButFinalEmptyLine ==
    SyncFiltered =>
        LET content == write_uploads_lines(filtered)
        IN  /\ Last(content) = NL
            /\ read_uploads_lines(content) = ReadBack(filtered)
            /\ writes = 1 => uploads = content

C8_Witness ==
    /\ LiveDone("sync") /\ writes = 1
    /\ Len(filtered) >= 2 /\ Last(filtered) = <<>>
    /\ read_uploads_lines(uploads) = Front(filtered)

\* C9: a live sync run writes the log at most once, only when the call for
\* every removed record has returned; until then the log is as before the run.
C9_OneWriteAfterAllCalls ==
    workflow = "sync" =>
        /\ writes <= 1
        /\ writes = 0 => uploads = uploads0
        /\ writes = 1 => /\ idx = Len(removed_objs)
                         /\ Len(requests) = Len(removed_objs)
                         /\ pc = "done"

C9_Witness ==
    LiveDone("sync") /\ writes = 1 /\ Len(requests) >= 2 /\ uploads # uploads0

\* C10: the log a live sync run writes is the lines of the old log without
\* the unreferenced records, whatever the calls returned, and the calls made
\* are one per unreferenced record, in the order of the lines, all made when
\* the log is written.
C10_RewriteIgnoresOutcomes ==
    (workflow = "sync" /\ ~dry_run /\ pc \in {"filtered", "done"}) =>
        /\ IsPrefix(requests, NoneRequests(Lines0, RefSet))
        /\ writes = 1 =>
              /\ uploads = write_uploads_lines(OtherLines(Lines0, RefSet))
              /\ requests = NoneRequests(Lines0, RefSet)

C10_Witness ==
    LiveDone("sync") /\ writes = 1 /\ ok >= 1 /\ fail >= 1

=============================================================================
